---------------------------- MODULE Spec2Model ----------------------------
(***************************************************************************)
(* Model of the Bastar Police crime dashboard (app.py).                    *)
(*                                                                         *)
(* The script is re-run from top to bottom on every user interaction.      *)
(* One action of the model is one interaction: the widget values change,   *)
(* the script runs against a fresh copy of the cached data frame and       *)
(* leaves a view (search result, mode listing, or the dashboard).          *)
(*                                                                         *)
(* Time is counted in half days since 2024-01-01 00:00, so that a          *)
(* timestamp can carry a time of day.  A nullable cell is <<>> (NaN/NaT)   *)
(* or <<v>>.  A string that the code inspects character by character       *)
(* (fir_number, the yes/no flags, the search text) is a tuple of           *)
(* one-character strings.                                                  *)
(***************************************************************************)
EXTENDS Integers, Sequences, FiniteSets, TLC

VARIABLES
    cache,              \* what load_data() has cached (st.cache_data)
    df,                 \* the frame the last run of the script worked on
    search_fir,         \* sidebar text input
    date_range,         \* sidebar date input, <<start day, end day>>
    selected_stations,  \* sidebar multiselect
    selected_crimes,    \* sidebar multiselect
    show_due,           \* value of the "Chargesheet Soon" button in the last run
    show_unarrested,    \* value of the "Accused Not Arrested" button
    pressed,            \* the button whose click caused the last run, or "none"
    view                \* what the last run of the script put on the page

vars == <<cache, df, search_fir, date_range, selected_stations,
          selected_crimes, show_due, show_unarrested, pressed, view>>

-----------------------------------------------------------------------------
(* Bounds of the model *)

MaxRows == 2        \* rows of the sheet in the general, search, filter and mode families
MeanRows == 3       \* rows of the sheet in the lag family
MapRows == 2        \* rows of the sheet in the map family
Slack == 2          \* half days the clock is sampled past each threshold

(* Program constants *)

CS_DUE_DAYS == 60
DUE_SOON_DAYS == 10
UNARRESTED_DAYS == 45

(* Resolution of the clock: two ticks per day *)
UnitsPerDay == 2

-----------------------------------------------------------------------------
(* Nullable cells *)

Null == <<>>
Some(v) == <<v>>
NotNull(c) == c # Null
Val(c) == c[1]

(* Generic helpers over sequences *)

RECURSIVE SumSeq(_)
SumSeq(s) == IF s = <<>> THEN 0 ELSE Head(s) + SumSeq(Tail(s))

RECURSIVE Indices(_, _, _)
\* the row labels i of 1..n, in order, for which keep[i] holds
Indices(keep, i, n) ==
    IF i > n THEN <<>>
    ELSE (IF keep[i] THEN <<i>> ELSE <<>>) \o Indices(keep, i + 1, n)

Range(s) == {s[i] : i \in DOMAIN s}

-----------------------------------------------------------------------------
(* Strings *)

LowerChar(c) ==
    CASE c = "A" -> "a"
      [] c = "N" -> "n"
      [] c = "Y" -> "y"
      [] c = "E" -> "e"
      [] c = "S" -> "s"
      [] OTHER -> c

StrLower(s) == [i \in DOMAIN s |-> LowerChar(s[i])]

\* Series.astype(str): a missing cell becomes the text "nan"
AsTypeStr(c) == IF c = Null THEN <<"n", "a", "n">> ELSE Val(c)

YES == <<"y", "e", "s">>

\* re.compile(pat): of the characters used here only "(" makes the pattern invalid
RegexError(pat) == \E i \in DOMAIN pat : pat[i] = "("

\* one pattern character against one text character, flags=re.IGNORECASE
CharMatches(p, c) == p = "." \/ LowerChar(p) = LowerChar(c)

\* re.search(pat, text, flags=re.IGNORECASE) for a pattern of literals and "."
RegexSearch(pat, text) ==
    \E off \in 0..Len(text) :
        /\ off + Len(pat) <= Len(text)
        /\ \A j \in 1..Len(pat) : CharMatches(pat[j], text[off + j])

\* Series.str.contains(pat, case=False, na=False) applied to one cell of a
\* column that went through astype(str): the cell is never missing, so na
\* is never consulted, and pat is a regular expression (regex=True default)
StrContains(cell, pat) == RegexSearch(pat, AsTypeStr(cell))

-----------------------------------------------------------------------------
(* Timestamps and time differences *)

\* pd.to_datetime(date): midnight at the start of the day
ToDatetime(day) == day * UnitsPerDay

\* Timestamp.date()
DateOf(t) == t \div UnitsPerDay

\* a - b on datetime cells; NaT if either side is NaT
TimeSub(a, b) == IF a = Null \/ b = Null THEN Null ELSE Some(Val(a) - Val(b))

\* a + pd.to_timedelta(n, unit='d')
AddDays(a, n) == IF a = Null THEN Null ELSE Some(Val(a) + n * UnitsPerDay)

\* variant: the day count rounded towards zero
DtDaysTowardsZero(d) ==
    IF d = Null THEN Null
    ELSE IF Val(d) >= 0 THEN Some(Val(d) \div UnitsPerDay)
    ELSE Some(-((-Val(d)) \div UnitsPerDay))

\* Series.dt.days of a timedelta: the days component, which is the floor
DtDays(d) == IF d = Null THEN Null ELSE Some(Val(d) \div UnitsPerDay)

\* comparisons of a possibly missing number with a number: False when missing
Le(c, n) == c # Null /\ Val(c) <= n
Ge(c, n) == c # Null /\ Val(c) >= n
Gt(c, n) == c # Null /\ Val(c) > n

\* Series.isin(values)
IsIn(c, values) == c # Null /\ Val(c) \in values

\* Calendar of 2024 (day 0 is 1 January 2024)
MonthLengths == <<31, 29, 31, 30, 31, 30, 31, 31, 30, 31, 30, 31>>

RECURSIVE MonthFrom(_, _)
MonthFrom(day, m) ==
    IF m >= 12 \/ day < MonthLengths[m] THEN <<m, day + 1>>
    ELSE MonthFrom(day - MonthLengths[m], m + 1)

\* <<month, day of month>> of a day number within 2024
MonthDay(day) == MonthFrom(day, 1)

\* Series.dt.month
DtMonth(c) == IF c = Null THEN Null ELSE Some(MonthDay(DateOf(Val(c)))[1])

season_map ==
    [m \in 1..12 |->
        CASE m \in {12, 1, 2} -> "Winter"
          [] m \in {3, 4} -> "Spring"
          [] m \in {5, 6} -> "Summer"
          [] m \in {7, 8, 9} -> "Monsoon"
          [] OTHER -> "Autumn"]

-----------------------------------------------------------------------------
(* The data frame *)

BaseCols == {"fir_number", "police_station", "crime_type", "date_reported",
             "arrest_date", "chargesheet_date", "accused_arrested",
             "chargesheet_filed", "status", "location"}

\* a frame is its column labels and its rows; the row label (1..n) is the case
Frame(cols, rows) == [cols |-> cols, rows |-> rows]

NRows(d) == Len(d.rows)

\* df['col']
Column(d, col) == [i \in 1..NRows(d) |-> d.rows[i][col]]

\* df[mask]: the labels of the selected rows, in frame order
Select(d, mask) == Indices(mask, 1, NRows(d))

\* load_data(): st.cache_data hands every run its own copy of the cached frame
load_data(cached) == cached

\* df['date_reported'].min() and .max(), NaT skipped; date_input keeps the date
DateCells(d) == {Val(c) : c \in Range(Column(d, "date_reported")) \ {Null}}
min_date(d) == CHOOSE t \in DateCells(d) : \A u \in DateCells(d) : t <= u
max_date(d) == CHOOSE t \in DateCells(d) : \A u \in DateCells(d) : t >= u

\* df[col].dropna().unique()
Unique(d, col) == {Val(c) : c \in Range(Column(d, col)) \ {Null}}
stations(d) == Unique(d, "police_station")
crime_types(d) == Unique(d, "crime_type")

-----------------------------------------------------------------------------
(* FIR search branch *)

search_result(d, q) ==
    Select(d, [i \in 1..NRows(d) |-> StrContains(d.rows[i].fir_number, q)])

-----------------------------------------------------------------------------
(* "Chargesheet Soon" branch *)

cs_due(r) == AddDays(r.date_reported, CS_DUE_DAYS)

days_left(r, today) == DtDays(TimeSub(cs_due(r), Some(today)))

\* df['cs_due'] = ...; df['days_left'] = ...   (assignment into df itself)
WithDueColumns(d, today) ==
    Frame(d.cols \cup {"cs_due", "days_left"},
          [i \in 1..NRows(d) |->
              [c \in d.cols \cup {"cs_due", "days_left"} |->
                  CASE c = "cs_due" -> cs_due(d.rows[i])
                    [] c = "days_left" -> days_left(d.rows[i], today)
                    [] OTHER -> d.rows[i][c]]])

\* variant: the upper bound taken exclusive
DueSoonMaskExclusive(r) ==
    /\ StrLower(AsTypeStr(r.chargesheet_filed)) # YES
    /\ r.days_left # Null /\ r.days_left[1] < DUE_SOON_DAYS
    /\ r.days_left # Null /\ r.days_left[1] >= 0

DueSoonMask(r) ==
    /\ StrLower(AsTypeStr(r.chargesheet_filed)) # YES
    /\ Le(r.days_left, DUE_SOON_DAYS)
    /\ Ge(r.days_left, 0)

due_soon_df(d) == Select(d, [i \in 1..NRows(d) |-> DueSoonMask(d.rows[i])])

-----------------------------------------------------------------------------
(* "Accused Not Arrested" branch *)

UnarrestedMask(r, today) ==
    /\ StrLower(AsTypeStr(r.accused_arrested)) # YES
    /\ Gt(DtDays(TimeSub(Some(today), r.date_reported)), UNARRESTED_DAYS)

unarrested_df(d, today) ==
    Select(d, [i \in 1..NRows(d) |-> UnarrestedMask(d.rows[i], today)])

-----------------------------------------------------------------------------
(* Standard dashboard *)

FilterMask(r, range, sel_stations, sel_crimes) ==
    /\ Ge(r.date_reported, ToDatetime(range[1]))
    /\ Le(r.date_reported, ToDatetime(range[2]))
    /\ IsIn(r.police_station, sel_stations)
    /\ IsIn(r.crime_type, sel_crimes)

filtered_df(d, range, sel_stations, sel_crimes) ==
    Select(d, [i \in 1..NRows(d) |->
                  FilterMask(d.rows[i], range, sel_stations, sel_crimes)])

\* Series.mean(): missing values are skipped; NaN over nothing.  The mean is
\* kept exact as <<sum, count>>.
NaN == <<>>

\* variant: a missing value counted as zero
MeanZeroFill(cells) ==
    IF cells = <<>> THEN NaN
    ELSE <<SumSeq([i \in DOMAIN cells |->
                      IF cells[i] = Null THEN 0 ELSE Val(cells[i])]), Len(cells)>>

Mean(cells) ==
    LET defined == SelectSeq(cells, NotNull)
    IN  IF defined = <<>> THEN NaN
        ELSE <<SumSeq([i \in DOMAIN defined |-> Val(defined[i])]), Len(defined)>>

\* the cells of one column of the filtered rows
Cells(d, rows, col) == [k \in DOMAIN rows |-> d.rows[rows[k]][col]]

fir_to_arrest(r) == DtDays(TimeSub(r.arrest_date, r.date_reported))
arrest_to_chargesheet(r) == DtDays(TimeSub(r.chargesheet_date, r.arrest_date))

\* number of cells equal to 'yes' after astype(str).str.lower()
CountYes(cells) ==
    Cardinality({k \in DOMAIN cells : StrLower(AsTypeStr(cells[k])) = YES})

Metrics(d, rows) ==
    [total |-> Len(rows),
     fir_numbers |-> Cardinality({k \in DOMAIN rows :
                                     NotNull(d.rows[rows[k]].fir_number)}),
     arrests |-> CountYes(Cells(d, rows, "accused_arrested")),
     chargesheets |-> CountYes(Cells(d, rows, "chargesheet_filed")),
     avg_fir_arrest |-> Mean([k \in DOMAIN rows |-> fir_to_arrest(d.rows[rows[k]])]),
     avg_arrest_cs |->
         Mean([k \in DOMAIN rows |-> arrest_to_chargesheet(d.rows[rows[k]])])]

\* Series.value_counts(): counts of the non-missing values
ValueCounts(cells) ==
    [v \in {Val(c) : c \in Range(cells) \ {Null}} |->
        Cardinality({k \in DOMAIN cells : cells[k] = Some(v)})]

season(r) ==
    LET m == DtMonth(r.date_reported)
    IN  IF m = Null THEN Null ELSE Some(season_map[Val(m)])

\* dt.to_period("M"): the month of 2024
month_year(r) == DtMonth(r.date_reported)

\* groupby(['month_year', 'crime_type']).size(): rows with a missing key drop out
MonthlyCounts(d, rows) ==
    LET keyed == {k \in DOMAIN rows : /\ NotNull(month_year(d.rows[rows[k]]))
                                      /\ NotNull(d.rows[rows[k]].crime_type)}
        key(k) == <<Val(month_year(d.rows[rows[k]])), Val(d.rows[rows[k]].crime_type)>>
    IN  [g \in {key(k) : k \in keyed} |-> Cardinality({k \in keyed : key(k) = g})]

Charts(d, rows) ==
    [crime_type |-> ValueCounts(Cells(d, rows, "crime_type")),
     police_station |-> ValueCounts(Cells(d, rows, "police_station")),
     status |-> ValueCounts(Cells(d, rows, "status")),
     season |-> ValueCounts([k \in DOMAIN rows |-> season(d.rows[rows[k]])]),
     monthly |-> MonthlyCounts(d, rows)]

-----------------------------------------------------------------------------
(* Map markers *)

RECURSIVE Split(_, _)
\* str.split(','): cur is the field being read
Split(s, cur) ==
    IF s = <<>> THEN <<cur>>
    ELSE IF Head(s) = "," THEN <<cur>> \o Split(Tail(s), <<>>)
    ELSE Split(Tail(s), Append(cur, Head(s)))

Digits == {"1", "2", "8", "9"}

\* float(field) succeeds: here a field is a number when it is a non-empty run
\* of digits, optionally with one decimal point between digits
IsFloat(f) ==
    /\ f # <<>>
    /\ \A i \in DOMAIN f : f[i] \in Digits \cup {"."}
    /\ Cardinality({i \in DOMAIN f : f[i] = "."}) <= 1
    /\ \E i \in DOMAIN f : f[i] \in Digits

\* variant: the first two fields taken, further fields ignored
ParseLocationFirstTwo(loc) ==
    LET parts == Split(loc, <<>>)
    IN  IF Len(parts) >= 2 /\ IsFloat(parts[1]) /\ IsFloat(parts[2])
        THEN Some(<<parts[1], parts[2]>>)
        ELSE Null

\* lat, lon = map(float, location_str.split(',')): Null when it raises
ParseLocation(loc) ==
    LET parts == Split(loc, <<>>)
    IN  IF Len(parts) = 2 /\ IsFloat(parts[1]) /\ IsFloat(parts[2])
        THEN Some(<<parts[1], parts[2]>>)
        ELSE Null

RECURSIVE MarkerLoop(_, _)
\* for _, row in filtered_df.iterrows(): the labels of the rows given a marker
MarkerLoop(d, rows) ==
    IF rows = <<>> THEN <<>>
    ELSE LET location_str == d.rows[Head(rows)].location
         IN  IF NotNull(location_str)
             THEN IF ParseLocation(Val(location_str)) # Null
                  THEN <<Head(rows)>> \o MarkerLoop(d, Tail(rows))
                  ELSE MarkerLoop(d, Tail(rows))        \* except: continue
             ELSE MarkerLoop(d, Tail(rows))

-----------------------------------------------------------------------------
(* One run of the script *)

View(kind, query, rows, today, metrics, charts, markers) ==
    [kind |-> kind, query |-> query, rows |-> rows, today |-> today,
     metrics |-> metrics, charts |-> charts, markers |-> markers]

\* the script, top to bottom, on the frame d returned by load_data();
\* the result is the frame as the run leaves it and the page it wrote
Script(d, q, range, sel_stations, sel_crimes, due, unarrested, today) ==
    IF q # <<>> THEN
        IF RegexError(q)
        THEN [df |-> d,
              view |-> View("error", q, <<>>, Null, Null, Null, Null)]
        ELSE [df |-> d,
              view |-> View("search", q, search_result(d, q), Null, Null, Null, Null)]
    ELSE IF due THEN
        LET d1 == WithDueColumns(d, today)
        IN  [df |-> d1,
             view |-> View("due", q, due_soon_df(d1), Some(today), Null, Null, Null)]
    ELSE IF unarrested THEN
        [df |-> d,
         view |-> View("unarrested", q, unarrested_df(d, today), Some(today),
                       Null, Null, Null)]
    ELSE
        LET rows == filtered_df(d, range, sel_stations, sel_crimes)
        IN  [df |-> d,
             view |-> View("dashboard", q, rows, Null, Metrics(d, rows),
                           Charts(d, rows), Some(MarkerLoop(d, rows)))]

\* variant: a button that stays down once clicked
ButtonValueSticky(previous, clicked) == previous \/ clicked

\* st.sidebar.button(...): True only in the run its click caused
ButtonValue(previous, clicked) == clicked

\* the clock readings datetime.now() is sampled at: around the 45-day mark,
\* around 10 days before the 60-day deadline, around the deadline itself, and
\* 2024-02-25 00:00
ExampleNow == 55 * UnitsPerDay
NowValues ==
    {(UNARRESTED_DAYS + 1) * UnitsPerDay + k : k \in 0..Slack}
    \cup {(CS_DUE_DAYS - DUE_SOON_DAYS) * UnitsPerDay + k : k \in 0..Slack}
    \cup {CS_DUE_DAYS * UnitsPerDay + k : k \in 0..Slack}
    \cup {ExampleNow}

\* texts typed into the search box
Queries == {<<"n">>, <<"n", "a">>, <<"n", "a", "n">>, <<"a", "1">>,
            <<"A", ".">>, <<"(">>}

\* the date ranges the date input offers: min_value and max_value are the
\* dates of the earliest and latest report
DateRanges(d) ==
    {<<s, e>> \in (DateOf(min_date(d))..DateOf(max_date(d)))
                  \X (DateOf(min_date(d))..DateOf(max_date(d))) : s <= e}

\* a rerun of the script with the given widget values and button clicks
Run(q, range, sel_stations, sel_crimes, button) ==
    LET due == ButtonValue(show_due, button = "due")
        unarrested == ButtonValue(show_unarrested, button = "unarrested")
    IN  \E today \in (IF q = <<>> /\ (due \/ unarrested) THEN NowValues
                      ELSE {ExampleNow}) :
            LET out == Script(load_data(cache), q, range, sel_stations,
                              sel_crimes, due, unarrested, today)
            IN  /\ df' = out.df
                /\ view' = out.view
                /\ search_fir' = q
                /\ date_range' = range
                /\ selected_stations' = sel_stations
                /\ selected_crimes' = sel_crimes
                /\ show_due' = due
                /\ show_unarrested' = unarrested
                /\ pressed' = button
                /\ cache' = cache

-----------------------------------------------------------------------------
(* Interactions *)

\* the user edits the FIR search box (possibly clearing it)
TypeSearch ==
    \E q \in Queries \cup {<<>>} :
        /\ q # search_fir
        /\ Run(q, date_range, selected_stations, selected_crimes, "none")

PickDateRange ==
    \E range \in DateRanges(cache) :
        /\ range # date_range
        /\ Run(search_fir, range, selected_stations, selected_crimes, "none")

PickStations ==
    \E sel \in SUBSET stations(cache) :
        /\ sel # selected_stations
        /\ Run(search_fir, date_range, sel, selected_crimes, "none")

PickCrimes ==
    \E sel \in SUBSET crime_types(cache) :
        /\ sel # selected_crimes
        /\ Run(search_fir, date_range, selected_stations, sel, "none")

PressDue ==
    Run(search_fir, date_range, selected_stations, selected_crimes, "due")

PressUnarrested ==
    Run(search_fir, date_range, selected_stations, selected_crimes, "unarrested")

\* "Back to Dashboard" is drawn only on the two mode pages; clicking it
\* reruns the script with neither sidebar button pressed
PressBack ==
    /\ view.kind \in {"due", "unarrested"}
    /\ Run(search_fir, date_range, selected_stations, selected_crimes, "back")

Next ==
    \/ TypeSearch
    \/ PickDateRange
    \/ PickStations
    \/ PickCrimes
    \/ PressDue
    \/ PressUnarrested
    \/ PressBack

-----------------------------------------------------------------------------
(* Sheets the session may have loaded *)

BaseRecord ==
    [fir_number |-> Some(<<"A", "1">>),
     police_station |-> Some("Kotwali"),
     crime_type |-> Some("Theft"),
     date_reported |-> Some(0),
     arrest_date |-> Null,
     chargesheet_date |-> Null,
     accused_arrested |-> Some(<<"n", "o">>),
     chargesheet_filed |-> Some(<<"n", "o">>),
     status |-> Some("Open"),
     location |-> Some(<<"1", "9", ",", "8", "2">>)]

\* b with the fields of the record u replaced
With(b, u) == [c \in DOMAIN b |-> IF c \in DOMAIN u THEN u[c] ELSE b[c]]

\* every sheet of 1..n rows over the pool with at least one report date
\* (the date input needs a minimum and a maximum)
Sheets(pool, n) ==
    {Frame(BaseCols, rows) :
        rows \in {r \in UNION {[1..k -> pool] : k \in 1..n} :
                     \E i \in DOMAIN r : NotNull(r[i].date_reported)}}

\* the state after the first run of the script on a freshly loaded sheet:
\* everything selected, nothing typed, nothing pressed
InitOn(sheets) ==
    /\ cache \in sheets
    /\ search_fir = <<>>
    /\ date_range = <<DateOf(min_date(cache)), DateOf(max_date(cache))>>
    /\ selected_stations = stations(cache)
    /\ selected_crimes = crime_types(cache)
    /\ show_due = FALSE
    /\ show_unarrested = FALSE
    /\ pressed = "none"
    /\ LET out == Script(load_data(cache), <<>>, date_range, selected_stations,
                         selected_crimes, FALSE, FALSE, ExampleNow)
       IN  df = out.df /\ view = out.view

\* a mixed sheet: the general family
GeneralPool ==
    {BaseRecord,
     With(BaseRecord, [fir_number |-> Null, police_station |-> Some("Bodhghat"),
                       crime_type |-> Some("Murder"), date_reported |-> Some(2),
                       arrest_date |-> Some(12), chargesheet_date |-> Some(21),
                       accused_arrested |-> Some(<<"Y", "e", "s">>),
                       chargesheet_filed |-> Some(<<"Y", "E", "S">>),
                       status |-> Some("Closed"),
                       location |-> Some(<<"n", "o", "t", ",", "a", ",", "c">>)]),
     With(BaseRecord, [fir_number |-> Some(<<"a", "n">>), date_reported |-> Null,
                       chargesheet_filed |-> Null, location |-> Null]),
     With(BaseRecord, [date_reported |-> Some(1), accused_arrested |-> Null,
                       police_station |-> Null])}

Init == InitOn(Sheets(GeneralPool, MaxRows))

Spec == Init /\ [][Next]_vars

\* FIR numbers (one missing) at two stations on two days
SearchPool ==
    {With(BaseRecord, [fir_number |-> f, police_station |-> Some(p[1]),
                       date_reported |-> Some(p[2])]) :
        f \in {Null, Some(<<"A", "1">>), Some(<<"a", "n">>)},
        p \in {<<"Kotwali", 0>>, <<"Bodhghat", 2>>}}

InitSearch == InitOn(Sheets(SearchPool, MaxRows))
SpecSearch == InitSearch /\ [][Next]_vars

\* report times at noon of day 0 and midnight of day 1 (or missing), two
\* stations with their crime types, and one missing station and crime type
FilterPool ==
    {With(BaseRecord, [date_reported |-> p[1], police_station |-> p[2],
                       crime_type |-> p[3]]) :
        p \in {<<Some(1), Some("Kotwali"), Some("Theft")>>,
               <<Some(2), Some("Kotwali"), Some("Theft")>>,
               <<Some(2), Some("Bodhghat"), Some("Murder")>>,
               <<Null, Some("Kotwali"), Some("Theft")>>,
               <<Some(1), Null, Some("Theft")>>,
               <<Some(2), Some("Bodhghat"), Null>>}}

InitFilter == InitOn(Sheets(FilterPool, MaxRows))
SpecFilter == InitFilter /\ [][Next]_vars

\* report times and chargesheet flags
DuePool ==
    {With(BaseRecord, [date_reported |-> p[1], chargesheet_filed |-> p[2]]) :
        p \in {<<Some(0), Some(<<"n", "o">>)>>,
               <<Some(1), Some(<<"n", "o">>)>>,
               <<Some(2), Null>>,
               <<Some(1), Some(<<"Y", "e", "s">>)>>,
               <<Null, Some(<<"n", "o">>)>>}}

InitDue == InitOn(Sheets(DuePool, MaxRows))
SpecDue == InitDue /\ [][Next]_vars

\* report times and arrest flags
UnarrestedPool ==
    {With(BaseRecord, [date_reported |-> p[1], accused_arrested |-> p[2]]) :
        p \in {<<Some(0), Some(<<"n", "o">>)>>,
               <<Some(1), Some(<<"n", "o">>)>>,
               <<Some(2), Null>>,
               <<Some(0), Some(<<"Y", "E", "S">>)>>,
               <<Null, Some(<<"n", "o">>)>>}}

InitUnarrested == InitOn(Sheets(UnarrestedPool, MaxRows))
SpecUnarrested == InitUnarrested /\ [][Next]_vars

\* location strings: good, missing, 'not,a,c', one field, a non-numeric
\* field, an empty field, and three fields (reported a day later)
MapPool ==
    {With(BaseRecord, [location |-> l]) :
        l \in {Some(<<"1", ".", "9", ",", "8", "2">>), Null,
               Some(<<"n", "o", "t", ",", "a", ",", "c">>),
               Some(<<"1", "9">>),
               Some(<<"1", ",", "a">>),
               Some(<<"1", ",">>)}}
    \cup {With(BaseRecord, [date_reported |-> Some(2),
                            location |-> Some(<<"1", ",", "2", ",", "8">>)])}

InitMap == InitOn(Sheets(MapPool, MapRows))
SpecMap == InitMap /\ [][Next]_vars

\* an arrest 5 days and 12 hours after the report, no arrest, and an arrest
\* 15 days after a report made a day later
LagPool ==
    {With(BaseRecord, [date_reported |-> Some(p[1]), arrest_date |-> p[2]]) :
        p \in {<<0, Some(5 * UnitsPerDay + 1)>>, <<0, Null>>,
               <<UnitsPerDay, Some(16 * UnitsPerDay)>>}}

InitLag == InitOn(Sheets(LagPool, MeanRows))
SpecLag == InitLag /\ [][Next]_vars

-----------------------------------------------------------------------------
(* Vocabulary of the properties *)

Modes == {"due", "unarrested"}

\* the loaded record of case i
Loaded(i) == cache.rows[i]
Cases == 1..NRows(cache)

\* q occurs in text as a literal substring, letter case ignored
LiteralContains(text, q) ==
    \E off \in 0..Len(text) :
        /\ off + Len(q) <= Len(text)
        /\ \A j \in 1..Len(q) : LowerChar(q[j]) = LowerChar(text[off + j])

\* the FIR number of a record matches the query
FirMatches(r, q) == NotNull(r.fir_number) /\ LiteralContains(Val(r.fir_number), q)

\* a yes/no flag that is not 'yes' in any letter case (a missing flag is not 'yes')
FlagNotYes(c) == c = Null \/ StrLower(Val(c)) # YES

\* whole days in a span of ticks, rounded towards zero
TruncDays(ticks) ==
    IF ticks >= 0 THEN ticks \div UnitsPerDay ELSE -((-ticks) \div UnitsPerDay)

\* k is the number of whole days in a span of ticks, rounded down
IsFloorDays(k, ticks) == k * UnitsPerDay <= ticks /\ ticks < (k + 1) * UnitsPerDay

RECURSIVE SumOver(_, _)
\* the sum of f over the finite set S
SumOver(S, f) ==
    IF S = {} THEN 0
    ELSE LET x == CHOOSE y \in S : TRUE IN f[x] + SumOver(S \ {x}, f)

-----------------------------------------------------------------------------
(* C1  Search-mode short-circuit: whenever the search box is non-empty the  *)
(* page is exactly the records of the whole loaded sheet whose FIR number   *)
(* matches the query, whatever the date range, stations and crime types     *)
(* selected and whichever button was pressed, and no metric, chart or map   *)
(* is produced.                                                             *)
C1_SearchShortCircuit ==
    search_fir # <<>> =>
        /\ view.kind = "search"
        /\ Range(view.rows) = {i \in Cases : FirMatches(Loaded(i), search_fir)}
        /\ view.metrics = Null /\ view.charts = Null /\ view.markers = Null

-----------------------------------------------------------------------------
(* C2  Standard filter: a record is on the dashboard iff its report date is *)
(* present and falls on a day from the start day to the end day, both days  *)
(* included, and its station and crime type are selected; a record without  *)
(* a report date is never on the dashboard but stays in the loaded sheet.   *)
C2_StandardFilter ==
    view.kind = "dashboard" =>
        /\ \A i \in Cases :
              i \in Range(view.rows) <=>
                  /\ NotNull(Loaded(i).date_reported)
                  /\ date_range[1] <= DateOf(Val(Loaded(i).date_reported))
                  /\ DateOf(Val(Loaded(i).date_reported)) <= date_range[2]
                  /\ IsIn(Loaded(i).police_station, selected_stations)
                  /\ IsIn(Loaded(i).crime_type, selected_crimes)
        /\ Range(view.rows) \subseteq Cases

-----------------------------------------------------------------------------
(* C3  The loaded data frame is never changed by a run: it keeps the        *)
(* columns and values it had right after loading, and no derived column is  *)
(* written into it.                                                         *)
C3_LoadedFrameUnchanged ==
    /\ df = cache
    /\ df.cols = BaseCols

-----------------------------------------------------------------------------
(* C4  "Chargesheet due soon": the records listed are exactly those of the  *)
(* whole loaded sheet, whatever the sidebar selection, whose chargesheet    *)
(* flag is not 'yes' and whose days_left lies in 0..10; a record without a  *)
(* report date is never listed.                                             *)
C4_DueSoonListing ==
    view.kind = "due" =>
        Range(view.rows) =
            {i \in Cases :
                /\ FlagNotYes(Loaded(i).chargesheet_filed)
                /\ NotNull(Loaded(i).date_reported)
                /\ \E k \in 0..DUE_SOON_DAYS :
                      IsFloorDays(k, Val(Loaded(i).date_reported)
                                     + CS_DUE_DAYS * UnitsPerDay - Val(view.today))}

\* a due-soon page that lists one record and leaves another out, shown while
\* no station is selected
C4_Witness ==
    /\ view.kind = "due"
    /\ view.rows # <<>>
    /\ Len(view.rows) < NRows(cache)
    /\ selected_stations = {}

-----------------------------------------------------------------------------
(* C5  Due-date arithmetic as claimed: cs_due is the report date plus 60    *)
(* days and days_left is the whole-day part of (cs_due - now) rounded       *)
(* towards zero, so a deadline missed by less than a day gives 0.           *)
C5_DaysLeftTruncated ==
    view.kind = "due" =>
        \A i \in Cases :
            NotNull(Loaded(i).date_reported) =>
                /\ df.rows[i].cs_due
                      = Some(Val(Loaded(i).date_reported) + CS_DUE_DAYS * UnitsPerDay)
                /\ df.rows[i].days_left
                      = Some(TruncDays(Val(df.rows[i].cs_due) - Val(view.today)))

(* C5 amended: cs_due is the report date plus 60 days and days_left is the  *)
(* whole-day part of (cs_due - now) rounded down, so a deadline missed by   *)
(* less than a day gives -1; a report of 2024-01-01 is due on 2024-03-01    *)
(* and has 5 days left on 2024-02-25.                                       *)
C5_DaysLeftFloored ==
    view.kind = "due" =>
        \A i \in Cases :
            NotNull(Loaded(i).date_reported) =>
                /\ df.rows[i].cs_due
                      = Some(Val(Loaded(i).date_reported) + CS_DUE_DAYS * UnitsPerDay)
                /\ NotNull(df.rows[i].days_left)
                /\ IsFloorDays(Val(df.rows[i].days_left),
                               Val(df.rows[i].cs_due) - Val(view.today))
                /\ (Loaded(i).date_reported = Some(0) /\ view.today = Some(ExampleNow)) =>
                      /\ MonthDay(DateOf(Val(df.rows[i].cs_due))) = <<3, 1>>
                      /\ df.rows[i].days_left = Some(5)

\* a due-soon run half a day after some record's deadline
C5_Witness ==
    /\ view.kind = "due"
    /\ \E i \in Cases :
          /\ NotNull(df.rows[i].cs_due)
          /\ Val(df.rows[i].cs_due) - Val(view.today) = -1
          /\ df.rows[i].days_left = Some(-1)

-----------------------------------------------------------------------------
(* C6  "Unarrested beyond 45 days": the records listed are exactly those of *)
(* the whole loaded sheet whose arrest flag is not 'yes' and for which      *)
(* now - date_reported is more than 45 days; a record without a report date *)
(* is never listed and does not disturb the listing of the others.          *)
C6_UnarrestedListing ==
    view.kind = "unarrested" =>
        Range(view.rows) =
            {i \in Cases :
                /\ FlagNotYes(Loaded(i).accused_arrested)
                /\ NotNull(Loaded(i).date_reported)
                /\ Val(view.today) - Val(Loaded(i).date_reported)
                      > UNARRESTED_DAYS * UnitsPerDay}

-----------------------------------------------------------------------------
(* C7  FIR search is null-safe and literal: a record is in the search       *)
(* result iff its FIR number is present and contains the query as a         *)
(* case-insensitive literal substring; a record without FIR number is in no *)
(* search result.                                                           *)
C7_SearchNullSafe ==
    view.kind = "search" =>
        \A i \in Cases :
            /\ i \in Range(view.rows) <=> FirMatches(Loaded(i), view.query)
            /\ Loaded(i).fir_number = Null => i \notin Range(view.rows)

-----------------------------------------------------------------------------
(* C8  Malformed location is dropped from the map only: a dashboard record  *)
(* gets a marker iff its location is present and is exactly two             *)
(* comma-separated numbers; any other record gets no marker, does not stop  *)
(* the markers of later records, and is still counted in the total and in   *)
(* the crime-type, station, status and season counts.                       *)
WellFormedLocation(loc) ==
    \E p \in DOMAIN loc :
        /\ loc[p] = ","
        /\ \A j \in DOMAIN loc : loc[j] = "," => j = p
        /\ IsFloat(SubSeq(loc, 1, p - 1))
        /\ IsFloat(SubSeq(loc, p + 1, Len(loc)))

C8_MalformedLocationMapOnly ==
    view.kind = "dashboard" =>
        LET shown == Range(view.rows)
            marked == Range(Val(view.markers))
        IN  /\ marked \subseteq shown
            /\ \A i \in shown :
                  i \in marked <=> /\ NotNull(Loaded(i).location)
                                   /\ WellFormedLocation(Val(Loaded(i).location))
            /\ view.metrics.total = Cardinality(shown)
            /\ \A i \in shown :
                  /\ \A col \in {"crime_type", "police_station", "status"} :
                        NotNull(Loaded(i)[col]) =>
                            view.charts[col][Val(Loaded(i)[col])]
                                = Cardinality({j \in shown : Loaded(j)[col] = Loaded(i)[col]})
                  /\ view.charts.season[Val(season(Loaded(i)))]
                        = Cardinality({j \in shown : season(Loaded(j)) = season(Loaded(i))})

\* a dashboard whose first record has the location 'not,a,c' and no marker,
\* whose second record has a marker, and which counts both
C8_Witness ==
    /\ view.kind = "dashboard"
    /\ view.rows = <<1, 2>>
    /\ Loaded(1).location = Some(<<"n", "o", "t", ",", "a", ",", "c">>)
    /\ view.markers = Some(<<2>>)
    /\ view.metrics.total = 2
    /\ view.charts.crime_type["Theft"] = 2

-----------------------------------------------------------------------------
(* C9  Mean lag excludes undefined values: "Avg FIR -> Arrest" is the sum   *)
(* of (arrest_date - date_reported).days over the dashboard records that    *)
(* have both dates, divided by their number; over no such record it is      *)
(* not-a-number.                                                            *)
C9_MeanExcludesUndefined ==
    view.kind = "dashboard" =>
        LET both == {i \in Range(view.rows) : /\ NotNull(Loaded(i).date_reported)
                                              /\ NotNull(Loaded(i).arrest_date)}
            lag == [i \in both |->
                       (Val(Loaded(i).arrest_date) - Val(Loaded(i).date_reported))
                           \div UnitsPerDay]
        IN  IF both = {} THEN view.metrics.avg_fir_arrest = NaN
            ELSE view.metrics.avg_fir_arrest = <<SumOver(both, lag), Cardinality(both)>>

\* lags 5, undefined and 15 on one dashboard: mean 20 / 2 = 10
C9_Witness ==
    /\ view.kind = "dashboard"
    /\ Len(view.rows) = 3
    /\ \E i, j, k \in Range(view.rows) :
          /\ fir_to_arrest(Loaded(i)) = Some(5)
          /\ fir_to_arrest(Loaded(j)) = Null
          /\ fir_to_arrest(Loaded(k)) = Some(15)
    /\ view.metrics.avg_fir_arrest = <<20, 2>>

-----------------------------------------------------------------------------
=============================================================================
